---- MODULE Spec2Model ----
(***************************************************************************)
(* Model of the fetch proxy of src/webfetch_proxy.py:                      *)
(* ShadowWebfetchProxy.fetch_url with its security filter, its rate        *)
(* limiter and its response cache, both kept in one shared Redis store.    *)
(* fetch_url is a coroutine: every `await` is a point where other calls    *)
(* may run, so one call is a sequence of atomic steps, one per await.      *)
(***************************************************************************)
EXTENDS Integers, Sequences, FiniteSets, TLC

\* ------------------------------------------------------------------ bounds
MaxInFlight == 2
MaxCalls == 2
MaxTicks == 1

\* ------------------------------------------------------- program constants
\* the literals _check_rate_limit compares the counts with
MINUTE_CAP == 60
HOUR_CAP == 1000
\* security.rate_limiting.requests_per_minute / requests_per_hour of default_config
DEFAULT_PER_MINUTE == 60
DEFAULT_PER_HOUR == 1000
\* _cache_response's ttl of 3600 seconds, in minutes
CACHE_TTL_MINUTES == 60
\* the hour key %Y%m%d%H is the minute key %Y%m%d%H%M without its minutes
MINUTES_PER_HOUR == 60

\* ------------------------------------------------------------ input sets
None == "<None>"
Slots == 1..MaxInFlight
Chars == {"a", "A", "b"}
NoAllow == [given |-> FALSE, codes |-> <<>>]
Allows == { NoAllow, [given |-> TRUE, codes |-> <<>>], [given |-> TRUE, codes |-> <<404>>] }
TickSteps == {1, CACHE_TTL_MINUTES}
StartMinute == 58

\* FetchRequest values over the given field values
RequestsOver(hosts, allows, flags) ==
  [url : { [host |-> h] : h \in hosts }, method : {"GET"}, headers : {None},
   data : {None}, allow_status_codes : allows, cache_enabled : flags]

\* ----------------------------------------------------------------- state
VARIABLES
  blocked_domains,   \* ShadowWebfetchProxy.blocked_domains
  allowed_domains,   \* ShadowWebfetchProxy.allowed_domains
  config,            \* ProxyConfig.config: the settings fetch_url reads
  redis_client,      \* TRUE iff initialize() created the Redis client
  now,               \* wall clock, in minutes
  ticks,             \* number of clock advances so far
  rate,              \* Redis: rate_limit:<client>:<window> -> count
  cache,             \* Redis: proxy_cache:<key> -> [data, exp]
  blocked_log,       \* intelligence/blocked_requests.json
  call,              \* per in-flight call: the coroutine's frame
  returned,          \* the frame of the call that returns in this step, if any
  calls,             \* history: calls begun, per client, in the minute window
  passed,            \* history: calls that passed the limiter, per rate key
  started,           \* history: calls begun so far
  bulk,              \* the frame of the bulk_fetch call: semaphore, tasks, results
  intelligence,      \* intelligence/webfetch_*.json: file name -> [mtime, ok]
  listing,           \* the answer of the last GET /intelligence/list
  security,          \* ProxyConfig.config["security"]: api_key and the domain lists
  reply,             \* the answer of the last GET /config, GET /blocked/requests
                     \* or POST /config/reload
  filled,            \* history: cache key -> the request whose response is stored
  dispatch,          \* the frame of the POST /fetch/bulk handler
  plugin             \* the frame of OpenCodeWebFetchPlugin.webfetch

vars ==
  << blocked_domains, allowed_domains, config, redis_client, now, ticks, rate,
     cache, blocked_log, call, returned, calls, passed, started, bulk,
     intelligence, listing, security, reply, filled, dispatch, plugin >>

\* ------------------------------------------------------------- strings
LowerChar(c) == IF c = "A" THEN "a" ELSE c

Lower(s) == [i \in 1..Len(s) |-> LowerChar(s[i])]

Range(f) == { f[i] : i \in DOMAIN f }

IsSubstr(e, d) ==
  \E i \in 0..(Len(d) - Len(e)) : SubSeq(d, i + 1, i + Len(e)) = e

\* urlparse(url).netloc
Netloc(url) == url.host

\* ----------------------------------------------------- security filter
is_domain_allowed(url) ==
  LET domain == Lower(Netloc(url)) IN
    IF \E blocked \in blocked_domains : IsSubstr(blocked, domain) THEN FALSE
    ELSE IF allowed_domains # {}
            /\ ~ \E allowed \in allowed_domains : IsSubstr(allowed, domain)
         THEN FALSE
         ELSE TRUE

\* --------------------------------------------------------- rate limiter
ClientName(api_key) == IF api_key = None THEN "anonymous" ELSE api_key

MinuteKey(api_key, t) == << ClientName(api_key), "m", t >>

HourKey(api_key, t) == << ClientName(api_key), "h", t \div MINUTES_PER_HOUR >>

\* redis GET of a counter, `or 0`
RedisCount(store, k) == IF k \in DOMAIN store THEN store[k] ELSE 0

\* redis INCR
RedisIncr(store, k) ==
  [x \in DOMAIN store \cup {k} |-> IF x = k THEN RedisCount(store, k) + 1 ELSE store[x]]

OverLimit(minute_count, hour_count) ==
  minute_count >= MINUTE_CAP \/ hour_count >= HOUR_CAP

\* ---------------------------------------------------------------- cache
generate_cache_key(request) ==
  LET headers_str == IF request.headers = None THEN "" ELSE request.headers
  IN << request.method, request.url, headers_str >>

ProxyResponse(status_code, content, url, success, error) ==
  [status_code |-> status_code, content |-> content, url |-> url,
   success |-> success, error |-> error]

\* json.dumps(asdict(response))
ToJson(r) == << "json", r.status_code, r.content, r.url, r.success, r.error >>

\* ProxyResponse(**json.loads(cached_data))
FromJson(j) == ProxyResponse(j[2], j[3], j[4], j[5], j[6])

CacheLive(k) == k \in DOMAIN cache /\ now < cache[k].exp

\* the request that wrote the entry of key k
Filled(hist, k, request) ==
  [x \in DOMAIN hist \cup {k} |-> IF x = k THEN request ELSE hist[x]]

\* redis SETEX
RedisSetex(store, k, ttl, data) ==
  [x \in DOMAIN store \cup {k} |-> IF x = k THEN [data |-> data, exp |-> now + ttl] ELSE store[x]]

\* a success flag that ignores the allow-list of the request (not the code's)
ComputeSuccessRangeOnly(request, status) == 200 <= status /\ status < 400

\* success of a fresh response
ComputeSuccess(request, status) ==
  IF ~ request.allow_status_codes.given \/ Len(request.allow_status_codes.codes) = 0
  THEN 200 <= status /\ status < 400
  ELSE \E i \in 1..Len(request.allow_status_codes.codes) :
          request.allow_status_codes.codes[i] = status

\* ------------------------------------------------------------- frames
\* a frame that holds no call
NoRequest ==
  [url |-> [host |-> << >>], method |-> "", headers |-> None, data |-> None,
   allow_status_codes |-> [given |-> FALSE, codes |-> << >>], cache_enabled |-> FALSE]

NoResult == ProxyResponse(0, "", NoRequest.url, FALSE, None)

IdleCall ==
  [pc |-> "idle", request |-> NoRequest, api_key |-> None, t0 |-> 0,
   minute_count |-> 0, hour_count |-> 0, result |-> NoResult,
   kind |-> "none", rl |-> "none", did |-> {}, ord |-> 0, prior |-> 0, task |-> 0]

Free(s) == call[s].pc = "idle"

\* The frames are interchangeable: a new call takes the first free one.
FirstFree(s) == Free(s) /\ \A x \in Slots : x < s => ~ Free(x)

\* _log_blocked_request: append, keep the last 1000
LogBlocked(log, request, reason) ==
  LET l == Append(log, [url |-> request.url, method |-> request.method,
                        reason |-> reason])
  IN IF Len(l) > 1000 THEN SubSeq(l, Len(l) - 999, Len(l)) ELSE l

Finish(c, kind, result) == [c EXCEPT !.pc = "done", !.kind = kind, !.result = result]

\* the `except Exception` handler of fetch_url
OnError(c, msg) ==
  Finish(c, "error", ProxyResponse(500, msg, c.request.url, FALSE, msg))

\* the `except asyncio.TimeoutError` handler of fetch_url
OnTimeout(c) ==
  Finish(c, "timeout",
         ProxyResponse(408, "Request timeout", c.request.url, FALSE, "Request timeout"))

\* a fetch_url that goes to the network without a cache lookup (not the code's)
EnterCacheNoLookup(c) == [c EXCEPT !.pc = "net"]

\* a fetch_url that looks into the cache whatever cache_enabled says (not the code's)
EnterCacheAlways(c) == [c EXCEPT !.pc = IF redis_client THEN "cache_get" ELSE "net"]

\* fetch_url from "# Check cache" up to its first await
EnterCache(c) ==
  IF c.request.cache_enabled /\ redis_client
  THEN [c EXCEPT !.pc = "cache_get"]
  ELSE [c EXCEPT !.pc = "net"]

\* ---------------------------------------------------------- POST /fetch
\* the HTTP status with which the endpoint answers a result of fetch_url
HttpStatus(result) ==
  IF ~ result.success /\ result.error \notin {None, ""}
  THEN result.status_code
  ELSE 200

\* ------------------------------------------------------------ bulk_fetch
\* the frame of bulk_fetch before it is called
IdleBulk ==
  [pc |-> "idle", urls |-> << >>, concurrent_limit |-> 0, api_key |-> None,
   sem |-> 0, tasks |-> << >>, nfin |-> 0, results |-> << >>]

\* a task of fetch_with_semaphore that has not run yet
NewTask == [st |-> "waiting", exc |-> FALSE, msg |-> "", result |-> NoResult, fin |-> 0]

\* the FetchRequest that fetch_with_semaphore builds for one URL
BulkRequest(url) ==
  [url |-> url, method |-> "GET", headers |-> None, data |-> None,
   allow_status_codes |-> NoAllow, cache_enabled |-> TRUE]

\* a semaphore that does not count its holders (not the code's)
SemAcquiredNoCount(sem) == sem

\* `async with semaphore`: entry
SemAcquired(sem) == sem - 1

\* `async with semaphore`: exit
SemReleased(sem) == sem + 1

\* the task i of the batch ends with the given outcome
TaskEnds(b, i, exc, msg, result) ==
  [b EXCEPT !.tasks[i] = [st |-> "done", exc |-> exc, msg |-> msg, result |-> result,
                          fin |-> b.nfin + 1],
            !.nfin = @ + 1,
            !.sem = SemReleased(@)]

\* the task i of the batch enters `async with semaphore`
TaskEnters(b, i) == [b EXCEPT !.tasks[i].st = "running", !.sem = SemAcquired(@)]

\* the frame of bulk_fetch after the fetch_url call of frame c made a step:
\* a task that starts takes the semaphore, a task whose fetch_url returns
\* leaves `async with` and is done
BulkAfter(c) ==
  IF c.task < 1 THEN bulk
  ELSE LET b == IF bulk.tasks[c.task].st = "waiting" THEN TaskEnters(bulk, c.task) ELSE bulk
       IN IF c.pc = "done" THEN TaskEnds(b, c.task, FALSE, "", c.result) ELSE b

\* ------------------------------------------- OpenCodeWebFetchPlugin.webfetch
\* the task number that marks the fetch_url call made for the plugin's POST /fetch
PluginTask == -1

\* the plugin before webfetch is called
IdlePlugin ==
  [pc |-> "idle", enabled |-> TRUE, fallback_enabled |-> TRUE, api_key |-> "test-key",
   blocked_domains |-> {}, allowed_domains |-> {}, cached |-> {},
   url |-> NoRequest.url, headers |-> None, status |-> 0, direct |-> FALSE,
   outcome |-> "none"]

\* the proxy_data that _proxy_fetch posts to /fetch
PluginRequest(url, headers) ==
  [url |-> url, method |-> "GET", headers |-> headers, data |-> None,
   allow_status_codes |-> [given |-> FALSE, codes |-> << >>], cache_enabled |-> TRUE]

\* OpenCodeWebFetchPlugin._is_domain_allowed, on the lists of the plugin's own
\* configuration
PluginDomainAllowed(pl, url) ==
  LET domain == Lower(Netloc(url)) IN
    IF \E b \in pl.blocked_domains : IsSubstr(b, domain) THEN FALSE
    ELSE IF pl.allowed_domains # {}
            /\ ~ \E a \in pl.allowed_domains : IsSubstr(a, domain)
         THEN FALSE
         ELSE TRUE

\* _direct_fetch: requests.get(url, headers=headers, timeout=timeout, **kwargs)
\* sends the request unless kwargs repeats one of the named arguments, which
\* raises TypeError before anything is sent
DirectFetch(pl) ==
  [pl EXCEPT !.pc = "done", !.direct = (pl.headers = None), !.outcome = "direct"]

\* _proxy_fetch, the else branch of `if response.status_code == 200` and the
\* except branch (status 0: no response)
ProxyRefused(pl, status) ==
  IF pl.fallback_enabled
  THEN DirectFetch([pl EXCEPT !.status = status])
  ELSE [pl EXCEPT !.pc = "done", !.status = status, !.outcome = "failed"]

\* _proxy_fetch after requests.post returned with the given status; a
\* successful result is cached
ProxyAnswered(pl, status, success) ==
  IF status = 200
  THEN [pl EXCEPT !.pc = "done", !.status = status, !.outcome = "proxied",
                  !.cached = IF success THEN @ \cup {<< pl.url, pl.headers >>} ELSE @]
  ELSE ProxyRefused(pl, status)

\* webfetch on the paths that do not reach the proxy: plugin disabled, proxy
\* not available, domain refused by the plugin's own lists, result in the
\* plugin's cache
WebfetchLocal(pl, available) ==
  IF ~ pl.enabled THEN DirectFetch(pl)
  ELSE IF ~ available
       THEN (IF pl.fallback_enabled THEN DirectFetch(pl)
             ELSE [pl EXCEPT !.pc = "done", !.outcome = "failed"])
       ELSE IF ~ PluginDomainAllowed(pl, pl.url)
            THEN [pl EXCEPT !.pc = "done", !.outcome = "blocked"]
            ELSE [pl EXCEPT !.pc = "done", !.outcome = "cached"]

\* the frame of webfetch after the fetch_url call of frame c made a step: the
\* plugin waits in requests.post until POST /fetch answers
PluginAfter(c) ==
  IF c.task # PluginTask \/ plugin.pc \notin {"idle", "proxy"} THEN plugin
  ELSE LET pl == [plugin EXCEPT !.pc = "proxy", !.url = c.request.url,
                                !.headers = c.request.headers]
       IN IF c.pc = "done"
          THEN ProxyAnswered(pl, HttpStatus(c.result), c.result.success)
          ELSE pl

\* frame s continues as c; a call that is done hands its result to the caller
\* and frees the frame
Advance(s, c) ==
  /\ call' = [call EXCEPT ![s] = IF c.pc = "done" THEN IdleCall ELSE c]
  /\ returned' = IF c.pc = "done" THEN c ELSE IdleCall
  /\ bulk' = BulkAfter(c)
  /\ plugin' = PluginAfter(c)

\* ------------------------------------------------------------------ Init
\* ProxyConfig.config, as far as fetch_url reads it
ConfigsOver(enabled, per_minute, caching) ==
  [rate_limiting_enabled : enabled, requests_per_minute : per_minute,
   requests_per_hour : {DEFAULT_PER_HOUR}, caching_enabled : caching,
   intelligence_enabled : {TRUE}]

\* A running proxy has served calls already.  A seed <<n, e>> is the state after
\* client k1 made e accepted calls in earlier minutes of this hour and then n
\* accepted calls, one after the other, in this minute.
SeededClient == "k1"

SeedCounters(seed) ==
  LET mk == MinuteKey(SeededClient, StartMinute)
      hk == HourKey(SeededClient, StartMinute)
  IN [k \in {x \in {mk, hk} : (IF x = mk THEN seed[1] ELSE seed[1] + seed[2]) > 0}
        |-> IF k = mk THEN seed[1] ELSE seed[1] + seed[2]]

InitProxy(BL, AL, CF, SD) ==
  /\ blocked_domains \in BL
  /\ allowed_domains \in AL
  /\ config \in CF
  /\ redis_client = config.caching_enabled
  /\ now = StartMinute
  /\ ticks = 0
  /\ \E seed \in SD :
       /\ passed = SeedCounters(seed)
       /\ rate = IF redis_client /\ config.rate_limiting_enabled
                 THEN SeedCounters(seed) ELSE << >>
       /\ calls = [c \in {None, SeededClient} |-> IF c = SeededClient THEN seed[1] ELSE 0]
  /\ cache = << >>
  /\ blocked_log = << >>
  /\ call = [s \in Slots |-> IdleCall]
  /\ returned = IdleCall
  /\ started = 0
  /\ filled = << >>

\* the intelligence directory holds no record, no listing was asked for
NoFiles == {}

NoListing == [limit |-> 0, records |-> << >>]

\* --------------------------------------------------- GET /intelligence/list
\* the files of the directory in an order that sorted(key=st_mtime, reverse=True)
\* can give: latest first, files of equal mtime in the order glob found them
SortedByMtime(order) ==
  /\ \A i \in 1..Len(order) : order[i] \in intelligence
  /\ \A i, j \in 1..Len(order) : i < j =>
        /\ order[i] # order[j]
        /\ order[i].mtime >= order[j].mtime

\* the whole list, whatever the limit (not the code's)
SliceAll(seq, limit) == seq

\* seq[:limit] of Python
SlicePrefix(seq, limit) ==
  LET n == IF limit >= 0
           THEN (IF limit < Len(seq) THEN limit ELSE Len(seq))
           ELSE (IF Len(seq) + limit > 0 THEN Len(seq) + limit ELSE 0)
  IN SubSeq(seq, 1, n)

\* the loop of list_intelligence: a file that cannot be read or parsed is skipped
RECURSIVE ReadRecords(_)
ReadRecords(files) ==
  IF files = << >> THEN << >>
  ELSE (IF Head(files).ok THEN << Head(files) >> ELSE << >>) \o ReadRecords(Tail(files))

\* the security section of the configuration from which __init__ took the lists
InitSecurity(keys) ==
  security \in [api_key : keys, blocked_domains : {blocked_domains},
                allowed_domains : {allowed_domains}]

\* no maintenance endpoint was called, no bulk request and no plugin call is under way
NoReply == [endpoint |-> "none"]

IdleDispatch == [pc |-> "idle", rounds |-> 0, status |-> 0, results |-> << >>]

InitQuiet ==
  /\ InitSecurity({None})
  /\ reply = NoReply
  /\ dispatch = IdleDispatch
  /\ plugin = IdlePlugin

\* a proxy on which bulk_fetch and the intelligence endpoints are not used
InitWith(BL, AL, CF, SD) ==
  /\ InitProxy(BL, AL, CF, SD)
  /\ bulk = IdleBulk
  /\ intelligence = NoFiles
  /\ listing = NoListing
  /\ InitQuiet


\* ---------------------------------------------------- _generate_cache_key
\* the order of header names under sorted()
Rank(name) == IF name = "x" THEN 1 ELSE 2

\* sorted(request.headers.items()): the items of the dict by ascending name
SortedItems(headers) ==
  CHOOSE s \in [1..Len(headers) -> Range(headers)] :
    /\ Range(s) = Range(headers)
    /\ \A i, j \in 1..Len(s) : i < j => Rank(s[i][1]) < Rank(s[j][1])

\* headers_str: "" for no headers (None or an empty dict), else the md5 of the
\* text of the sorted items; the digest is taken to be injective
HeadersStr(headers) ==
  IF headers = None \/ headers = << >> THEN << >> ELSE << "md5", SortedItems(headers) >>

\* f"{method}:{url}:{headers_str}", of which the key is the sha256, taken to be
\* injective.  headers_str holds no ':', so the text up to the last ':' and
\* headers_str determine the string and are determined by it.
CacheKeyContent(method, url, headers) ==
  << method \o << ":" >> \o url \o << ":" >>, HeadersStr(headers) >>

\* ------------------------------------------------- maintenance endpoints
\* the value get_config writes over the key
Redacted == "***REDACTED***"

\* a security section without the key "api_key"
Absent == "<absent>"

\* a get_config that passes the section on as it is (not the code's)
SanitizedKeepsKey(sec) == sec

\* get_config, "# Remove sensitive information"
Sanitized(sec) ==
  IF sec.api_key = Absent THEN sec ELSE [sec EXCEPT !.api_key = Redacted]

\* the dict get_config returns
ConfigBody(cf, sec) == [config |-> cf, security |-> Sanitized(sec)]

\* seq[start:] of Python
SliceFrom(seq, start) ==
  LET n == IF start >= 0
           THEN (IF start < Len(seq) THEN start ELSE Len(seq))
           ELSE (IF Len(seq) + start > 0 THEN Len(seq) + start ELSE 0)
  IN SubSeq(seq, n + 1, Len(seq))

\* get_blocked_requests, "# Return last 'limit' requests"
RecentRequests(blocked_requests, limit) ==
  IF limit < Len(blocked_requests)
  THEN SliceFrom(blocked_requests, 0 - limit)
  ELSE blocked_requests

\* --------------------------------------------------------------- actions
\* fetch_url from its entry to its first await: the domain check, and the part
\* of _check_rate_limit before its first Redis round trip.
BeginCall(s, request, api_key, task) ==
  /\ FirstFree(s)
  /\ started < MaxCalls
  /\ started' = started + 1
  /\ calls' = [calls EXCEPT ![api_key] = @ + 1]
  /\ LET hk == HourKey(api_key, now)
         mk == MinuteKey(api_key, now)
         c0 == [IdleCall EXCEPT !.request = request, !.api_key = api_key, !.t0 = now,
                                !.task = task,
                                !.ord = calls[api_key] + 1,
                                !.prior = RedisCount(passed, mk)]
     IN IF ~ is_domain_allowed(request.url)
        THEN /\ Advance(s, Finish(c0, "blocked",
                    ProxyResponse(403, "Domain not allowed", request.url, FALSE,
                                  "Domain blocked by security policy")))
             /\ blocked_log' = LogBlocked(blocked_log, request, "DOMAIN_BLOCKED")
             /\ passed' = passed
        ELSE /\ blocked_log' = blocked_log
             /\ IF config.rate_limiting_enabled /\ redis_client
                THEN /\ Advance(s, [c0 EXCEPT !.pc = "rl_get_minute"])
                     /\ passed' = passed
                ELSE /\ Advance(s, EnterCache([c0 EXCEPT !.rl = "accepted"]))
                     /\ passed' = RedisIncr(RedisIncr(passed, mk), hk)
  /\ UNCHANGED << security, reply, filled, dispatch,
                  intelligence, listing, blocked_domains, allowed_domains, config, redis_client, now, ticks,
                  rate, cache >>

\* fetch_url called directly, as POST /fetch does
Begin(s, request, api_key) == BeginCall(s, request, api_key, 0)

\* a Redis round trip of the rate limiter that raises: fetch_url's generic handler
RateLimitFails(s, msg) ==
  /\ call[s].pc \in {"rl_get_minute", "rl_get_hour", "rl_exec"}
  /\ Advance(s, OnError([call[s] EXCEPT !.rl = "error"], msg))
  /\ blocked_log' = LogBlocked(blocked_log, call[s].request, "ERROR")
  /\ UNCHANGED << security, reply, filled, dispatch,
                  intelligence, listing, blocked_domains, allowed_domains, config, redis_client, now, ticks,
                  rate, cache, calls, passed, started >>

\* minute_count = await redis.get(minute_key) or 0
RateGetMinute(s) ==
  /\ call[s].pc = "rl_get_minute"
  /\ Advance(s, [call[s] EXCEPT !.pc = "rl_get_hour", !.did = @ \cup {"rl_read"},
         !.minute_count = RedisCount(rate, MinuteKey(call[s].api_key, call[s].t0))])
  /\ UNCHANGED << security, reply, filled, dispatch,
                  intelligence, listing, blocked_domains, allowed_domains, config, redis_client, now, ticks,
                  rate, cache, blocked_log, calls, passed, started >>

\* hour_count = await redis.get(hour_key) or 0, then the comparison with the caps
RateGetHour(s) ==
  /\ call[s].pc = "rl_get_hour"
  /\ LET hour_count == RedisCount(rate, HourKey(call[s].api_key, call[s].t0))
         c1 == [call[s] EXCEPT !.hour_count = hour_count]
     IN IF OverLimit(call[s].minute_count, hour_count)
        THEN /\ Advance(s, Finish([c1 EXCEPT !.rl = "rejected"], "ratelimited",
                    ProxyResponse(429, "Rate limit exceeded", c1.request.url, FALSE,
                                  "Rate limit exceeded")))
             /\ blocked_log' = LogBlocked(blocked_log, c1.request, "RATE_LIMIT")
        ELSE /\ Advance(s, [c1 EXCEPT !.pc = "rl_exec"])
             /\ blocked_log' = blocked_log
  /\ UNCHANGED << security, reply, filled, dispatch,
                  intelligence, listing, blocked_domains, allowed_domains, config, redis_client, now, ticks,
                  rate, cache, calls, passed, started >>

\* await pipe.execute(): INCR and EXPIRE of both keys, in one transaction
RateIncrement(s) ==
  /\ call[s].pc = "rl_exec"
  /\ LET mk == MinuteKey(call[s].api_key, call[s].t0)
         hk == HourKey(call[s].api_key, call[s].t0)
     IN /\ rate' = RedisIncr(RedisIncr(rate, mk), hk)
        /\ passed' = RedisIncr(RedisIncr(passed, mk), hk)
  /\ Advance(s, EnterCache([call[s] EXCEPT !.rl = "accepted", !.did = @ \cup {"rl_incr"}]))
  /\ UNCHANGED << security, reply, filled, dispatch,
                  intelligence, listing, blocked_domains, allowed_domains, config, redis_client, now, ticks,
                  cache, blocked_log, calls, started >>

\* cached_response = await self._get_cached_response(cache_key)
CacheGet(s, ok) ==
  /\ call[s].pc = "cache_get"
  /\ LET k == generate_cache_key(call[s].request)
         c1 == [call[s] EXCEPT !.did = @ \cup {"cache_get"}]
     IN Advance(s, IF ok /\ CacheLive(k)
                   THEN Finish(c1, "cachehit", FromJson(cache[k].data))
                   ELSE [c1 EXCEPT !.pc = "net"])
  /\ UNCHANGED << security, reply, filled, dispatch,
                  intelligence, listing, blocked_domains, allowed_domains, config, redis_client, now, ticks,
                  rate, cache, blocked_log, calls, passed, started >>

\* session.request(...) answers and response.text() is read
NetResponse(s, status, content) ==
  /\ call[s].pc = "net"
  /\ LET c1 == [call[s] EXCEPT !.did = @ \cup {"net"}]
         r == ProxyResponse(status, content, c1.request.url,
                            ComputeSuccess(c1.request, status), None)
     IN Advance(s, IF r.success /\ c1.request.cache_enabled /\ redis_client
                   THEN [c1 EXCEPT !.pc = "cache_set", !.result = r]
                   ELSE Finish(c1, "fresh", r))
  /\ UNCHANGED << security, reply, filled, dispatch,
                  intelligence, listing, blocked_domains, allowed_domains, config, redis_client, now, ticks,
                  rate, cache, blocked_log, calls, passed, started >>

\* the network call times out
NetTimeout(s) ==
  /\ call[s].pc = "net"
  /\ Advance(s, OnTimeout([call[s] EXCEPT !.did = @ \cup {"net"}]))
  /\ blocked_log' = LogBlocked(blocked_log, call[s].request, "TIMEOUT")
  /\ UNCHANGED << security, reply, filled, dispatch,
                  intelligence, listing, blocked_domains, allowed_domains, config, redis_client, now, ticks,
                  rate, cache, calls, passed, started >>

\* the network call raises any other exception e, with str(e) = msg
NetError(s, msg) ==
  /\ call[s].pc = "net"
  /\ Advance(s, OnError([call[s] EXCEPT !.did = @ \cup {"net"}], msg))
  /\ blocked_log' = LogBlocked(blocked_log, call[s].request, "ERROR")
  /\ UNCHANGED << security, reply, filled, dispatch,
                  intelligence, listing, blocked_domains, allowed_domains, config, redis_client, now, ticks,
                  rate, cache, calls, passed, started >>

\* a cache write whose failure reaches fetch_url's generic handler (not the code's)
CacheSetRaises(s, ok) ==
  /\ call[s].pc = "cache_set"
  /\ cache' = IF ok
              THEN RedisSetex(cache, generate_cache_key(call[s].request),
                              CACHE_TTL_MINUTES, ToJson(call[s].result))
              ELSE cache
  /\ filled' = IF ok THEN Filled(filled, generate_cache_key(call[s].request), call[s].request)
               ELSE filled
  /\ LET c1 == [call[s] EXCEPT !.did = @ \cup {"cache_set"}]
     IN Advance(s, IF ok THEN Finish(c1, "fresh", call[s].result) ELSE OnError(c1, "boom"))
  /\ UNCHANGED << security, reply, dispatch,
                  intelligence, listing, blocked_domains, allowed_domains, config,
                  redis_client, now, ticks, rate, blocked_log, calls, passed, started >>

\* await self._cache_response(cache_key, proxy_response); a failure is swallowed
CacheSet(s, ok) ==
  /\ call[s].pc = "cache_set"
  /\ cache' = IF ok
              THEN RedisSetex(cache, generate_cache_key(call[s].request),
                              CACHE_TTL_MINUTES, ToJson(call[s].result))
              ELSE cache
  /\ filled' = IF ok THEN Filled(filled, generate_cache_key(call[s].request), call[s].request)
               ELSE filled
  /\ Advance(s, Finish([call[s] EXCEPT !.did = @ \cup {"cache_set"}], "fresh", call[s].result))
  /\ UNCHANGED << security, reply, dispatch,
                  intelligence, listing, blocked_domains, allowed_domains, config, redis_client, now, ticks,
                  rate, blocked_log, calls, passed, started >>

\* the wall clock advances; the per-minute history starts a new window
Tick(d) ==
  /\ ticks < MaxTicks
  /\ ticks' = ticks + 1
  /\ now' = now + d
  /\ calls' = [c \in DOMAIN calls |-> 0]
  /\ returned' = IdleCall
  /\ UNCHANGED << security, reply, filled, dispatch, plugin,
                  bulk, intelligence, listing, blocked_domains, allowed_domains, config, redis_client, rate, cache,
                  blocked_log, call, passed, started >>

\* results in the order in which the tasks completed (not the code's)
GatherAsCompleted(tasks) ==
  [k \in 1..Len(tasks) |-> tasks[CHOOSE i \in 1..Len(tasks) : tasks[i].fin = k]]

\* asyncio.gather(*tasks, return_exceptions=True): the outcomes in the order of
\* the awaitables
Gather(tasks) == tasks

\* an exception is passed on in place of a result (not the code's)
ProcessResultKeepsException(out, url) ==
  IF out.exc THEN [exception |-> out.msg] ELSE out.result

\* bulk_fetch, "# Handle exceptions": one entry of processed_results
ProcessResult(out, url) ==
  IF out.exc THEN ProxyResponse(500, out.msg, url, FALSE, out.msg) ELSE out.result

\* the frame of bulk_fetch at `await asyncio.gather`: the semaphore and one task
\* per URL; asyncio.Semaphore raises ValueError for a negative value
BulkFrame(urls, concurrent_limit, api_key) ==
  IF concurrent_limit < 0
  THEN [IdleBulk EXCEPT !.pc = "raised", !.urls = urls,
                        !.concurrent_limit = concurrent_limit]
  ELSE [pc |-> "gather", urls |-> urls, concurrent_limit |-> concurrent_limit,
        api_key |-> api_key, sem |-> concurrent_limit,
        tasks |-> [i \in 1..Len(urls) |-> NewTask], nfin |-> 0,
        results |-> << >>]

\* bulk_fetch up to `await asyncio.gather`
BulkFetch(urls, concurrent_limit, api_key) ==
  /\ bulk.pc = "idle"
  /\ bulk' = BulkFrame(urls, concurrent_limit, api_key)
  /\ returned' = IdleCall
  /\ UNCHANGED << security, reply, filled, dispatch, plugin,
                  intelligence, listing, blocked_domains, allowed_domains, config,
                  redis_client, now, ticks, rate, cache, blocked_log, call, calls,
                  passed, started >>

\* the tasks run in the order of their creation; the semaphore wakes its
\* waiters first come, first served
NextToRun(i) ==
  /\ bulk.pc = "gather"
  /\ i \in 1..Len(bulk.tasks)
  /\ bulk.tasks[i].st = "waiting"
  /\ \A j \in 1..(i - 1) : bulk.tasks[j].st # "waiting"
  /\ bulk.sem > 0

\* fetch_with_semaphore: the semaphore is taken and fetch_url runs to its first await
TaskStart(s, i) ==
  /\ NextToRun(i)
  /\ BeginCall(s, BulkRequest(bulk.urls[i]), bulk.api_key, i)

\* fetch_with_semaphore: the semaphore is taken and the call of fetch_url raises
\* before its try block is entered (request_id: the URL cannot be encoded)
TaskRaises(i, msg) ==
  /\ NextToRun(i)
  /\ bulk' = TaskEnds(TaskEnters(bulk, i), i, TRUE, msg, NoResult)
  /\ returned' = IdleCall
  /\ UNCHANGED << security, reply, filled, dispatch, plugin,
                  intelligence, listing, blocked_domains, allowed_domains, config,
                  redis_client, now, ticks, rate, cache, blocked_log, call, calls,
                  passed, started >>

\* gather returns when every task is done; bulk_fetch returns processed_results
BulkReturn ==
  /\ bulk.pc = "gather"
  /\ \A i \in 1..Len(bulk.tasks) : bulk.tasks[i].st = "done"
  /\ bulk' = [bulk EXCEPT !.pc = "done",
                          !.results = [i \in 1..Len(bulk.urls) |->
                                         ProcessResult(Gather(bulk.tasks)[i], bulk.urls[i])]]
  /\ returned' = IdleCall
  /\ UNCHANGED << security, reply, filled, dispatch, plugin,
                  intelligence, listing, blocked_domains, allowed_domains, config,
                  redis_client, now, ticks, rate, cache, blocked_log, call, calls,
                  passed, started >>

\* GET /intelligence/list?limit=..., with the directory listed in the given order
ListIntelligence(limit, order) ==
  /\ Len(order) = Cardinality(intelligence)
  /\ SortedByMtime(order)
  /\ listing' = [limit |-> limit, records |-> ReadRecords(SlicePrefix(order, limit))]
  /\ returned' = IdleCall
  /\ UNCHANGED << security, reply, filled, dispatch, plugin,
                  bulk, intelligence, blocked_domains, allowed_domains, config,
                  redis_client, now, ticks, rate, cache, blocked_log, call, calls,
                  passed, started >>

\* _generate_cache_key called on a request with the given method, url and headers
GenerateCacheKey(method, url, headers) ==
  /\ reply' = [endpoint |-> "_generate_cache_key", method |-> method, url |-> url,
               headers |-> headers, key |-> CacheKeyContent(method, url, headers)]
  /\ returned' = IdleCall
  /\ UNCHANGED << security, filled, dispatch, plugin, bulk, intelligence, listing,
                  blocked_domains, allowed_domains, config, redis_client, now, ticks,
                  rate, cache, blocked_log, call, calls, passed, started >>

\* GET /config.  config.copy() is a shallow copy: config["security"] is the dict
\* of the live configuration, and the assignment writes into it.
GetConfig ==
  /\ reply' = [endpoint |-> "config", of |-> security, body |-> ConfigBody(config, security)]
  /\ security' = Sanitized(security)
  /\ returned' = IdleCall
  /\ UNCHANGED << filled, dispatch, plugin, bulk, intelligence, listing,
                  blocked_domains, allowed_domains, config, redis_client, now, ticks,
                  rate, cache, blocked_log, call, calls, passed, started >>

\* POST /config/reload with a configuration file that holds cf and sec:
\* load_config replaces ProxyConfig.config; the sets that __init__ made of the
\* domain lists are not made again
ReloadConfig(cf, sec) ==
  /\ config' = cf
  /\ security' = sec
  /\ reply' = [endpoint |-> "reload", status |-> "success"]
  /\ returned' = IdleCall
  /\ UNCHANGED << filled, dispatch, plugin, bulk, intelligence, listing,
                  blocked_domains, allowed_domains, redis_client, now, ticks,
                  rate, cache, blocked_log, call, calls, passed, started >>

\* GET /blocked/requests?limit=...
GetBlockedRequests(limit) ==
  /\ reply' = [endpoint |-> "blocked", limit |-> limit, of |-> blocked_log,
               blocked_requests |-> RecentRequests(blocked_log, limit),
               total |-> Len(blocked_log)]
  /\ returned' = IdleCall
  /\ UNCHANGED << security, filled, dispatch, plugin, bulk, intelligence, listing,
                  blocked_domains, allowed_domains, config, redis_client, now, ticks,
                  rate, cache, blocked_log, call, calls, passed, started >>

\* bulk_fetch_urls after its first `await proxy.bulk_fetch(request, api_key)`:
\* the summary is logged and bulk_fetch is awaited a second time
AfterFirstBulkFetch(d, b) == [d EXCEPT !.pc = "second", !.rounds = 2]

\* POST /fetch/bulk up to its first `await proxy.bulk_fetch(request, api_key)`;
\* a ValueError of the semaphore reaches the handler's `except Exception`
BulkFetchUrls(urls, concurrent_limit, api_key) ==
  /\ dispatch.pc = "idle" /\ bulk.pc = "idle"
  /\ bulk' = BulkFrame(urls, concurrent_limit, api_key)
  /\ dispatch' = IF bulk'.pc = "raised"
                 THEN [pc |-> "done", rounds |-> 1, status |-> 500, results |-> << >>]
                 ELSE [pc |-> "first", rounds |-> 1, status |-> 0, results |-> << >>]
  /\ returned' = IdleCall
  /\ UNCHANGED << security, reply, filled, plugin, intelligence, listing,
                  blocked_domains, allowed_domains, config, redis_client, now, ticks,
                  rate, cache, blocked_log, call, calls, passed, started >>

\* the first bulk_fetch has returned: the handler goes on to its second
\* `await proxy.bulk_fetch(request, api_key)`
BulkFetchUrlsAgain ==
  /\ dispatch.pc = "first" /\ bulk.pc = "done"
  /\ dispatch' = AfterFirstBulkFetch(dispatch, bulk)
  /\ bulk' = IF dispatch'.pc = "second"
             THEN BulkFrame(bulk.urls, bulk.concurrent_limit, bulk.api_key)
             ELSE bulk
  /\ returned' = IdleCall
  /\ UNCHANGED << security, reply, filled, plugin, intelligence, listing,
                  blocked_domains, allowed_domains, config, redis_client, now, ticks,
                  rate, cache, blocked_log, call, calls, passed, started >>

\* the second bulk_fetch has returned: the handler answers with its results
BulkFetchUrlsReturn ==
  /\ dispatch.pc = "second" /\ bulk.pc = "done"
  /\ dispatch' = [dispatch EXCEPT !.pc = "done", !.status = 200, !.results = bulk.results]
  /\ returned' = IdleCall
  /\ UNCHANGED << security, reply, filled, plugin, bulk, intelligence, listing,
                  blocked_domains, allowed_domains, config, redis_client, now, ticks,
                  rate, cache, blocked_log, call, calls, passed, started >>

\* OpenCodeWebFetchPlugin.webfetch(url, headers=...), with the given answer of
\* the health check, up to the point where POST /fetch waits in fetch_url
Webfetch(s, url, headers, available) ==
  /\ plugin.pc = "idle"
  /\ IF /\ plugin.enabled /\ available /\ PluginDomainAllowed(plugin, url)
        /\ << url, headers >> \notin plugin.cached
     THEN BeginCall(s, PluginRequest(url, headers), plugin.api_key, PluginTask)
     ELSE /\ plugin' = WebfetchLocal([plugin EXCEPT !.url = url, !.headers = headers],
                                     available)
          /\ returned' = IdleCall
          /\ UNCHANGED << security, reply, filled, dispatch, bulk, intelligence, listing,
                          blocked_domains, allowed_domains, config, redis_client, now,
                          ticks, rate, cache, blocked_log, call, calls, passed, started >>

\* requests.post raises (its timeout passes, the connection breaks) while
\* fetch_url is still at work: the except branch of _proxy_fetch
ProxyFetchRaises ==
  /\ plugin.pc = "proxy"
  /\ plugin' = ProxyRefused(plugin, 0)
  /\ returned' = IdleCall
  /\ UNCHANGED << security, reply, filled, dispatch, bulk, intelligence, listing,
                  blocked_domains, allowed_domains, config, redis_client, now, ticks,
                  rate, cache, blocked_log, call, calls, passed, started >>

\* the steps of the rate limiter's Redis round trips
LimiterSteps(messages) ==
  \/ \E s \in Slots, msg \in messages : RateLimitFails(s, msg)
  \/ \E s \in Slots : RateGetMinute(s)
  \/ \E s \in Slots : RateGetHour(s)
  \/ \E s \in Slots : RateIncrement(s)

\* the steps of fetch_url from the cache lookup on
CallSteps(statuses, contents, messages) ==
  \/ \E s \in Slots, ok \in BOOLEAN : CacheGet(s, ok)
  \/ \E s \in Slots, status \in statuses, content \in contents : NetResponse(s, status, content)
  \/ \E s \in Slots : NetTimeout(s)
  \/ \E s \in Slots, msg \in messages : NetError(s, msg)
  \/ \E s \in Slots, ok \in BOOLEAN : CacheSet(s, ok)

\* the other steps of fetch_url, and the clock
FetchSteps(requests, clients, statuses, contents, messages) ==
  \/ \E s \in Slots, request \in requests, api_key \in clients : Begin(s, request, api_key)
  \/ CallSteps(statuses, contents, messages)
  \/ \E d \in TickSteps : Tick(d)

\* one step of the proxy, with the inputs drawn from the given sets
NextOver(requests, clients, statuses, contents, messages) ==
  \/ LimiterSteps(messages)
  \/ FetchSteps(requests, clients, statuses, contents, messages)

\* The whole pipeline: policy rejections, rate-limit rejections, cache hits,
\* network outcomes and Redis failures.
Init ==
  InitWith({ {}, {<<"a">>} }, { {} }, ConfigsOver(BOOLEAN, {DEFAULT_PER_MINUTE}, BOOLEAN),
           { <<0, 0>>, <<59, 0>> })

Next ==
  NextOver(RequestsOver({<<"a">>, <<"b">>}, {NoAllow}, BOOLEAN), {SeededClient},
           {200, 404}, {"c1"}, {"", "boom"})

Spec == Init /\ [][Next]_vars


\* The order of the checks: policy rejections, rate-limit rejections, cache
\* hits and misses, network answers, all within one minute window.
InitOrder ==
  InitWith({ {<<"a">>} }, { {} }, ConfigsOver({TRUE}, {DEFAULT_PER_MINUTE}, BOOLEAN),
           { <<59, 0>> })

NextOrder ==
  \/ LimiterSteps({"boom"})
  \/ \E s \in Slots, request \in RequestsOver({<<"a">>, <<"b">>}, {NoAllow}, {TRUE}) :
        Begin(s, request, SeededClient)
  \/ CallSteps({200, 404}, {"c1"}, {"boom"})

SpecOrder == InitOrder /\ [][NextOrder]_vars

\* The security filter over hosts and list entries of either letter case.
MaxHostLen == 2

Strings(n) == UNION { [1..k -> Chars] : k \in 1..n }

FilterLists == { {} } \cup { {e} : e \in Strings(1) }

InitFilter ==
  InitWith(FilterLists, { {} }, ConfigsOver({TRUE}, {DEFAULT_PER_MINUTE}, {TRUE}),
           { <<0, 0>> })

NextFilter ==
  NextOver(RequestsOver(Strings(MaxHostLen), {NoAllow}, {TRUE}), {SeededClient},
           {200}, {"c1"}, {"boom"})

SpecFilter == InitFilter /\ [][NextFilter]_vars

\* The rate limiter: configured caps, with and without a Redis client, counters
\* near the caps, two clients.
InitRate ==
  InitWith({ {} }, { {} }, ConfigsOver(BOOLEAN, {DEFAULT_PER_MINUTE, 2}, BOOLEAN),
           { <<0, 0>>, <<2, 0>>, <<59, 0>>, <<59, 940>>, <<0, 1000>> })

NextRate ==
  NextOver(RequestsOver({<<"a">>}, {NoAllow}, {TRUE}), {None, SeededClient},
           {200}, {"c1"}, {"boom"})

SpecRate == InitRate /\ [][NextRate]_vars

\* The response cache and the success flag: allow-lists and several upstream
\* answers, with rate limiting disabled in the configuration (no step of the
\* limiter can then happen).
InitCache ==
  InitWith({ {} }, { {} }, ConfigsOver({FALSE}, {DEFAULT_PER_MINUTE}, BOOLEAN), { <<0, 0>> })

NextCache ==
  FetchSteps(RequestsOver({<<"a">>}, Allows, {TRUE}), {SeededClient},
             {200, 400, 404}, {"c1"}, {"boom"})

SpecCache == InitCache /\ [][NextCache]_vars

\* bulk_fetch: batches of blocked and allowed URLs, every concurrent_limit up
\* to the number of frames, fetches that fail, time out or raise.
UrlLists == UNION { [1..k -> { [host |-> h] : h \in {<<"a">>, <<"b">>} }] : k \in 0..MaxCalls }

InitBulk ==
  InitWith({ {<<"a">>} }, { {} }, ConfigsOver({FALSE}, {DEFAULT_PER_MINUTE}, {FALSE}),
           { <<0, 0>> })

NextBulk ==
  \/ \E urls \in UrlLists, concurrent_limit \in (-1)..MaxInFlight :
        BulkFetch(urls, concurrent_limit, SeededClient)
  \/ \E s \in Slots, i \in 1..MaxCalls : TaskStart(s, i)
  \/ \E i \in 1..MaxCalls : TaskRaises(i, "boom")
  \/ \E s \in Slots, status \in {200, 404} : NetResponse(s, status, "c1")
  \/ \E s \in Slots : NetTimeout(s)
  \/ \E s \in Slots : NetError(s, "boom")
  \/ BulkReturn

SpecBulk == InitBulk /\ [][NextBulk]_vars

\* The security filter as a function of the URL: netlocs of either letter case,
\* with and without a userinfo part ("user@host"), and the empty netloc of a URL
\* without scheme; block and allow lists in lower case.
MaxNetlocLen == 3

StringsOver(chars, n) == UNION { [1..k -> chars] : k \in 0..n }

DomainLists == { {}, {<<"a">>} }

\* the empty netloc, and the netlocs that name a host
Netlocs ==
  { n \in StringsOver({"a", "A", "b", "@"}, MaxNetlocLen) : n = << >> \/ n[Len(n)] # "@" }

InitDomain ==
  InitWith(DomainLists, DomainLists, ConfigsOver({FALSE}, {DEFAULT_PER_MINUTE}, {FALSE}),
           { <<0, 0>> })

NextDomain ==
  \/ \E s \in Slots,
         request \in RequestsOver(Netlocs, {NoAllow}, {TRUE}) :
        Begin(s, request, SeededClient)
  \/ \E s \in Slots : NetResponse(s, 200, "c1")
  \/ \E s \in Slots : NetError(s, "boom")

SpecDomain == InitDomain /\ [][NextDomain]_vars

\* The cache store: requests with and without cache_enabled, answers with and
\* without success, cache operations that fail, with and without a Redis client.
InitStore ==
  InitWith({ {} }, { {} }, ConfigsOver({FALSE}, {DEFAULT_PER_MINUTE}, BOOLEAN), { <<0, 0>> })

NextStore ==
  FetchSteps(RequestsOver({<<"a">>}, {NoAllow}, BOOLEAN), {SeededClient},
             {200, 404}, {"c1"}, {"boom"})

SpecStore == InitStore /\ [][NextStore]_vars

\* The intelligence listing over directories of up to MaxFiles record files,
\* with equal and different modification times, readable or not.
MaxFiles == 3

FileNames == 1..MaxFiles

Stores ==
  { { [name |-> n, mtime |-> f[n].mtime, ok |-> f[n].ok, url |-> [host |-> <<"a">>]] :
        n \in { x \in FileNames : f[x].present } } :
      f \in [FileNames -> [present : BOOLEAN, mtime : {1, 2}, ok : BOOLEAN]] }

Orders(files) == [1..Cardinality(files) -> files]

InitList ==
  /\ InitProxy({ {} }, { {} }, ConfigsOver({TRUE}, {DEFAULT_PER_MINUTE}, {TRUE}), { <<0, 0>> })
  /\ InitQuiet
  /\ bulk = IdleBulk
  /\ intelligence \in Stores
  /\ listing = NoListing

NextList ==
  \E limit \in (-1)..(MaxFiles + 1), order \in Orders(intelligence) :
    ListIntelligence(limit, order)

SpecList == InitList /\ [][NextList]_vars

\* The cache key as a function of method, url and headers.  Methods and urls are
\* texts over a letter and ':', headers are dicts given as their items in
\* insertion order.
MaxKeyLen == 2

KeyTexts == StringsOver({"g", ":"}, MaxKeyLen)

HeaderDicts ==
  { None, << >>, << <<"x", "1">> >>, << <<"x", "2">> >>, << <<"y", "1">> >>,
    << <<"x", "1">>, <<"y", "1">> >>, << <<"y", "1">>, <<"x", "1">> >> }

InitKey ==
  InitWith({ {} }, { {} }, ConfigsOver({FALSE}, {DEFAULT_PER_MINUTE}, {FALSE}), { <<0, 0>> })

NextKey ==
  \E method \in KeyTexts, url \in KeyTexts, headers \in HeaderDicts :
    GenerateCacheKey(method, url, headers)

SpecKey == InitKey /\ [][NextKey]_vars

\* The maintenance endpoints on a proxy that blocks host a and serves fetches.
AdminKeys == {None, "s1", "s2"}

AdminConfigs == ConfigsOver({FALSE}, {DEFAULT_PER_MINUTE}, {FALSE})

InitAdmin ==
  /\ InitProxy({ {<<"a">>} }, { {} }, AdminConfigs, { <<0, 0>> })
  /\ bulk = IdleBulk
  /\ intelligence = NoFiles
  /\ listing = NoListing
  /\ InitSecurity({Absent, None, "s1"})
  /\ reply = NoReply
  /\ dispatch = IdleDispatch
  /\ plugin = IdlePlugin

NextAdmin ==
  \/ \E s \in Slots, request \in RequestsOver({<<"a">>, <<"b">>, <<"a", "b">>}, {NoAllow}, {TRUE}) :
        Begin(s, request, None)
  \/ \E s \in Slots : NetResponse(s, 200, "c1")
  \/ GetConfig
  \/ \E cf \in AdminConfigs,
        sec \in [api_key : {"s2"}, blocked_domains : { {}, {<<"b">>} },
                 allowed_domains : { {} }] : ReloadConfig(cf, sec)
  \/ \E limit \in 0..(MaxCalls + 1) : GetBlockedRequests(limit)

SpecAdmin == InitAdmin /\ [][NextAdmin]_vars

\* bulk_fetch under the scheduling of the event loop: a task that can take the
\* semaphore does, a fetch_url call that is under way returns, and gather
\* returns once every task is done.
FetchReturns ==
  \/ \E s \in Slots, status \in {200, 404} : NetResponse(s, status, "c1")
  \/ \E s \in Slots : NetTimeout(s)
  \/ \E s \in Slots : NetError(s, "boom")

SpecBulkFair ==
  /\ InitBulk /\ [][NextBulk]_vars
  /\ WF_vars(\E s \in Slots, i \in 1..MaxCalls : TaskStart(s, i))
  /\ WF_vars(FetchReturns)
  /\ WF_vars(BulkReturn)

\* POST /fetch/bulk for batches of up to MaxBatch URLs; without Redis every
\* fetch is accepted by the limiter and counted in the history
MaxBatch == 1

Batches == UNION { [1..k -> { [host |-> h] : h \in {<<"a">>, <<"b">>} }] : k \in 0..MaxBatch }

InitDispatch ==
  InitWith({ {<<"a">>} }, { {} }, ConfigsOver({TRUE}, {DEFAULT_PER_MINUTE}, {FALSE}),
           { <<0, 0>> })

NextDispatch ==
  \/ \E urls \in Batches, concurrent_limit \in (-1)..MaxInFlight :
        BulkFetchUrls(urls, concurrent_limit, SeededClient)
  \/ BulkFetchUrlsAgain
  \/ BulkFetchUrlsReturn
  \/ \E s \in Slots, i \in 1..MaxBatch : TaskStart(s, i)
  \/ \E i \in 1..MaxBatch : TaskRaises(i, "boom")
  \/ \E s \in Slots, status \in {200, 404} : NetResponse(s, status, "c1")
  \/ \E s \in Slots : NetTimeout(s)
  \/ \E s \in Slots : NetError(s, "boom")
  \/ BulkReturn

SpecDispatch == InitDispatch /\ [][NextDispatch]_vars

\* POST requests to one url that differ in their body, on a proxy with a cache
BodyRequests ==
  [url : { [host |-> <<"b">>] }, method : {"POST"}, headers : {None},
   data : {"d1", "d2"}, allow_status_codes : {NoAllow}, cache_enabled : {TRUE}]

InitBody ==
  InitWith({ {} }, { {} }, ConfigsOver({FALSE}, {DEFAULT_PER_MINUTE}, {TRUE}), { <<0, 0>> })

NextBody ==
  \/ \E s \in Slots, request \in BodyRequests : Begin(s, request, None)
  \/ CallSteps({200}, {"c1", "c2"}, {"boom"})

SpecBody == InitBody /\ [][NextBody]_vars

\* The plugin in front of a proxy that blocks host a and limits client k1,
\* which has made no call or 60 calls in this minute.
Plugins ==
  { [IdlePlugin EXCEPT !.api_key = SeededClient, !.fallback_enabled = f, !.enabled = e] :
      f \in BOOLEAN, e \in BOOLEAN }

InitPlugin ==
  /\ InitProxy({ {<<"a">>} }, { {} }, ConfigsOver({TRUE}, {DEFAULT_PER_MINUTE}, {TRUE}),
               { <<0, 0>>, <<MINUTE_CAP, 0>> })
  /\ bulk = IdleBulk
  /\ intelligence = NoFiles
  /\ listing = NoListing
  /\ InitSecurity({None})
  /\ reply = NoReply
  /\ dispatch = IdleDispatch
  /\ plugin \in Plugins

NextPlugin ==
  \/ \E s \in Slots, url \in { [host |-> h] : h \in {<<"a">>, <<"b">>} },
        headers \in {None, "h1"}, available \in BOOLEAN :
        Webfetch(s, url, headers, available)
  \/ ProxyFetchRaises
  \/ LimiterSteps({"boom"})
  \/ CallSteps({200, 404}, {"c1"}, {"boom"})

SpecPlugin == InitPlugin /\ [][NextPlugin]_vars

\* ---------------------------------------------------------------- claims
\* a call returns in this state; `returned` is its frame and its ProxyResponse
Done == returned.pc = "done"

NoUpstream(c) == c.kind \in {"blocked", "ratelimited", "timeout", "error"}

InCodes(status, codes) == \E i \in 1..Len(codes) : codes[i] = status

\* C1: fetch_url always returns a ProxyResponse; a call that got no upstream
\* response returns success = false and a non-empty error.
C1_Claim ==
  Done =>
    /\ returned.kind \in {"blocked", "ratelimited", "timeout", "error", "fresh", "cachehit"}
    /\ NoUpstream(returned) =>
         /\ returned.result.success = FALSE
         /\ returned.result.error \notin {None, ""}

\* the host of the call's URL contains a blocked-domain entry
HostBlocked(c) == \E e \in blocked_domains : IsSubstr(e, Netloc(c.request.url))

\* C2: a URL whose host contains a blocked-domain entry gets 403 and
\* success = false, and no network call is made for it (the status is stated
\* for a call that no Redis failure ended).
C2_Claim ==
  /\ (Done /\ HostBlocked(returned) /\ returned.rl # "error") =>
       /\ returned.result.status_code = 403
       /\ returned.result.success = FALSE
  /\ HostBlocked(returned) => "net" \notin returned.did
  /\ \A s \in Slots : (~ Free(s) /\ HostBlocked(call[s])) => "net" \notin call[s].did

\* C3: with rate limiting enabled, the call that follows requests_per_minute
\* accepted calls of the same client in the same minute window returns 429
\* (stated for a proxy whose Redis client is initialised and for a call whose
\* limiter round trips all answered).
C3_Claim ==
  ( /\ Done
    /\ config.rate_limiting_enabled
    /\ redis_client
    /\ returned.rl # "error"
    /\ returned.ord = config.requests_per_minute + 1
    /\ returned.prior = config.requests_per_minute ) =>
    /\ returned.result.status_code = 429
    /\ returned.result.success = FALSE

\* C4: the calls of one client that pass the rate-limit check in one minute
\* window never exceed 60, and in one hour window never exceed 1000 (stated
\* for a proxy with rate limiting enabled and its Redis client initialised).
C4_Claim ==
  (config.rate_limiting_enabled /\ redis_client) =>
    \A k \in DOMAIN passed :
      passed[k] <= (IF k[2] = "m" THEN MINUTE_CAP ELSE HOUR_CAP)

\* C5: with rate limiting enabled, a rejected limiter call leaves the client's
\* two counters unchanged; an accepted one raises both by exactly one.
C5_Step ==
  \A s \in Slots :
    LET c == IF returned'.pc = "done" THEN returned' ELSE call'[s]
        mk == MinuteKey(c.api_key, c.t0)
        hk == HourKey(c.api_key, c.t0)
    IN (config.rate_limiting_enabled /\ call'[s] # call[s]) =>
         /\ (call[s].rl = "none" /\ c.rl = "rejected") =>
              /\ RedisCount(rate', mk) = RedisCount(rate, mk)
              /\ RedisCount(rate', hk) = RedisCount(rate, hk)
         /\ (call[s].rl = "none" /\ c.rl = "accepted") =>
              /\ RedisCount(rate', mk) = RedisCount(rate, mk) + 1
              /\ RedisCount(rate', hk) = RedisCount(rate, hk) + 1

C5_Claim == [][C5_Step]_vars

\* C6: with rate limiting enabled and the Redis client initialised, a call is
\* rejected exactly when the minute count it read has reached
\* security.rate_limiting.requests_per_minute or the hour count it read has
\* reached requests_per_hour.
C6_Claim ==
  \A c \in {returned} \cup {call[s] : s \in Slots} :
    (config.rate_limiting_enabled /\ redis_client /\ c.rl \in {"accepted", "rejected"}) =>
      ( c.rl = "rejected" <=>
          \/ c.minute_count >= config.requests_per_minute
          \/ c.hour_count >= config.requests_per_hour )

\* C7: the checks run in the order domain policy, rate limit, cache lookup,
\* network call, and the first that decides ends the fetch: a policy rejection
\* touches neither the counters nor the cache, a rate-limit rejection does no
\* cache lookup and no network call, a cache hit does no network call.
C7_Step ==
  /\ returned'.kind = "blocked" =>
       /\ rate' = rate /\ cache' = cache
       /\ returned'.did = {} /\ returned'.rl = "none"
  /\ returned'.kind = "ratelimited" =>
       /\ rate' = rate /\ cache' = cache
       /\ returned'.did = {"rl_read"}
  /\ returned'.kind = "cachehit" =>
       /\ "net" \notin returned'.did
       /\ returned'.rl = "accepted"
  /\ \A c \in {returned'} \cup {call'[s] : s \in Slots} :
       /\ (c.did # {} \/ c.rl # "none") => is_domain_allowed(c.request.url)
       /\ "cache_get" \in c.did => c.rl = "accepted"
       /\ "net" \in c.did =>
            /\ c.rl = "accepted"
            /\ (c.request.cache_enabled /\ redis_client) => "cache_get" \in c.did

C7_Order == [][C7_Step]_vars

C7_Witness ==
  /\ Done /\ returned.kind = "ratelimited" /\ returned.request.cache_enabled
  /\ redis_client /\ cache # << >>

\* C8: a call that is served from the cache returns a result marked cached = true.
IsMarkedCached(r) == IF "cached" \in DOMAIN r THEN r.cached ELSE FALSE

C8_Claim == (Done /\ returned.kind = "cachehit") => IsMarkedCached(returned.result)

\* C9 as stated: for a fresh response, success is membership in
\* allow_status_codes whenever the request supplied the list, else 200 <= status < 400.
C9_Original ==
  (Done /\ returned.kind = "fresh") =>
    ( returned.result.success <=>
        IF returned.request.allow_status_codes.given
        THEN InCodes(returned.result.status_code, returned.request.allow_status_codes.codes)
        ELSE returned.result.status_code \in 200..399 )

\* C9 as amended: membership decides when the request supplied a non-empty
\* list; with no list or an empty one, 200 <= status < 400 decides.
C9_Amended ==
  (Done /\ returned.kind = "fresh") =>
    ( returned.result.success <=>
        IF returned.request.allow_status_codes.given
           /\ returned.request.allow_status_codes.codes # << >>
        THEN InCodes(returned.result.status_code, returned.request.allow_status_codes.codes)
        ELSE returned.result.status_code \in 200..399 )

C9_Witness ==
  /\ Done /\ returned.kind = "fresh"
  /\ returned.request.allow_status_codes.codes = <<404>>
  /\ returned.result.status_code = 404
  /\ returned.result.success

\* C10: every result that carries an upstream status, fresh or cached, has
\* success computed against the allow-list of the request that receives it
\* (an empty list read as no list).
C10_Claim ==
  (Done /\ returned.kind \in {"fresh", "cachehit"}) =>
    ( returned.result.success <=>
        IF returned.request.allow_status_codes.given
           /\ returned.request.allow_status_codes.codes # << >>
        THEN InCodes(returned.result.status_code, returned.request.allow_status_codes.codes)
        ELSE returned.result.status_code \in 200..399 )

\* the batch returned; bulk.results is the list bulk_fetch returns
BulkDone == bulk.pc = "done"

\* C11: bulk_fetch returns one result per input URL, and result i is the result
\* of the fetch of urls[i], whatever the order in which the fetches completed.
C11_Claim ==
  BulkDone =>
    /\ Len(bulk.results) = Len(bulk.urls)
    /\ \A i \in 1..Len(bulk.urls) :
         /\ bulk.results[i].url = bulk.urls[i]
         /\ ~ bulk.tasks[i].exc => bulk.results[i] = bulk.tasks[i].result

C11_Witness ==
  /\ BulkDone /\ Len(bulk.urls) = 2
  /\ bulk.urls[1] # bulk.urls[2]
  /\ bulk.tasks[2].fin < bulk.tasks[1].fin

\* the tasks of the batch that hold the semaphore, i.e. whose fetch_url is in flight
InFlight == { i \in 1..Len(bulk.tasks) : bulk.tasks[i].st = "running" }

\* C12: within one bulk_fetch call the number of fetch_url executions in flight
\* never exceeds concurrent_limit.
C12_Claim ==
  bulk.pc = "gather" =>
    /\ Cardinality(InFlight) <= bulk.concurrent_limit
    /\ \A i \in InFlight : \E s \in Slots : call[s].task = i /\ ~ Free(s)

C12_Witness ==
  /\ bulk.pc = "gather" /\ bulk.concurrent_limit = 1
  /\ Cardinality(InFlight) = 1
  /\ \E i \in 1..Len(bulk.tasks) : bulk.tasks[i].st = "waiting"

\* C13: a fetch of the batch that fails, times out or raises keeps its own slot,
\* with success = false, and every other slot holds the result of its own
\* fetch; the batch is never aborted.
C13_Claim ==
  /\ bulk.tasks # << >> => bulk.pc \in {"gather", "done"}
  /\ BulkDone => \A i \in 1..Len(bulk.urls) :
       /\ bulk.tasks[i].st = "done"
       /\ "success" \in DOMAIN bulk.results[i]
       /\ bulk.tasks[i].exc =>
            /\ bulk.results[i].success = FALSE
            /\ bulk.results[i].url = bulk.urls[i]
       /\ ~ bulk.tasks[i].exc => bulk.results[i] = bulk.tasks[i].result

C13_Witness ==
  /\ BulkDone /\ Len(bulk.urls) = 2
  /\ \E i, j \in 1..2 :
       /\ bulk.tasks[i].exc
       /\ ~ bulk.tasks[j].exc /\ bulk.results[j].success
       /\ bulk.tasks[i].fin < bulk.tasks[j].fin

\* C14: with intelligence recording enabled, a completed fetch has left a
\* record of itself in the intelligence store (stated for a fetch that obtained
\* a response with success = true).
C14_Claim ==
  (Done /\ config.intelligence_enabled /\ returned.kind = "fresh" /\ returned.result.success) =>
    \E f \in intelligence : f.url = returned.request.url

\* the listing answered a request with limit K >= 0
Listed == listing # NoListing /\ listing.limit >= 0

\* C15: for a limit K >= 0 the listing returns at most K records, latest first,
\* and no readable record it leaves out is later than one it returns.
C15_Claim ==
  Listed =>
    LET recs == listing.records IN
      /\ Len(recs) <= listing.limit
      /\ \A i, j \in 1..Len(recs) : i < j => recs[i].mtime >= recs[j].mtime /\ recs[i] # recs[j]
      /\ \A i \in 1..Len(recs) :
           /\ recs[i] \in intelligence
           /\ \A f \in intelligence :
                (f.ok /\ \A j \in 1..Len(recs) : recs[j] # f) => recs[i].mtime >= f.mtime

C15_Witness ==
  /\ Listed /\ listing.limit = 2 /\ Len(listing.records) = 2
  /\ Cardinality(intelligence) = 3
  /\ listing.records[1].mtime > listing.records[2].mtime

\* C16: a failure of the cache lookup or of the cache write is swallowed: the
\* lookup step ends in a cache hit or goes on to the network call, the write
\* step returns the fresh result it was given; neither returns an error result.
C16_Step ==
  \A s \in Slots :
    /\ (call[s].pc = "cache_get" /\ call'[s] # call[s]) =>
         \/ call'[s].pc = "net" /\ call'[s].request = call[s].request
         \/ returned'.kind = "cachehit"
    /\ (call[s].pc = "cache_set" /\ call'[s] # call[s]) =>
         /\ returned'.pc = "done" /\ returned'.kind = "fresh"
         /\ returned'.result = call[s].result
         /\ returned'.result.success

C16_Claim == [][C16_Step]_vars

\* a fetch returned after its cache write failed: the write was made and the
\* cache is still empty
C16_Witness ==
  /\ Done /\ returned.kind = "fresh" /\ "cache_set" \in returned.did
  /\ returned.result.success /\ cache = << >>

\* the HTTP status the taxonomy gives the outcome of a fetch
TaxonomyStatus(kind) ==
  CASE kind = "blocked" -> 403
    [] kind = "ratelimited" -> 429
    [] kind = "timeout" -> 408
    [] kind = "error" -> 500
    [] OTHER -> 200

\* C17: POST /fetch answers a policy rejection with 403, a rate-limit rejection
\* with 429, a timeout with 408, an upstream or network error with 500 and every
\* other outcome with 200.
C17_Claim == Done => HttpStatus(returned.result) = TaxonomyStatus(returned.kind)

\* the network host of a netloc: what follows the userinfo part
RECURSIVE HostOf(_)
HostOf(netloc) ==
  IF \E i \in 1..Len(netloc) : netloc[i] = "@"
  THEN HostOf(Tail(netloc))
  ELSE netloc

\* the host contains the entry, letter case aside
HostMatches(e, host) == IsSubstr(Lower(e), Lower(host))

\* the decision C18 states for a URL
AllowedAsStated(url) ==
  LET host == HostOf(Netloc(url)) IN
    IF \E e \in blocked_domains : HostMatches(e, host) THEN FALSE
    ELSE IF allowed_domains # {} THEN \E e \in allowed_domains : HostMatches(e, host)
    ELSE TRUE

\* C18: the filter decides on the network host only: a host that contains a
\* blocked entry is rejected, otherwise a non-empty allow-list admits exactly
\* the hosts that contain an allowed entry, otherwise the URL is admitted.
C18_Claim ==
  /\ Done => (returned.kind = "blocked" <=> ~ AllowedAsStated(returned.request.url))
  /\ \A s \in Slots : ~ Free(s) => AllowedAsStated(call[s].request.url)

\* C19: a URL from which no network host can be extracted is rejected with the
\* 403 result, whatever the lists, and never reaches the network call.
C19_Claim ==
  /\ (Done /\ Netloc(returned.request.url) = << >>) =>
       /\ returned.kind = "blocked" /\ returned.result.status_code = 403
       /\ "net" \notin returned.did
  /\ \A s \in Slots : ~ Free(s) => Netloc(call[s].request.url) # << >>

\* C20: the cache store changes only in the write step of a fetch that made a
\* network call, got success = true and has cache_enabled = true; a request with
\* cache_enabled = false neither reads nor writes the cache; every cache entry
\* holds a result with success = true.
C20_Step ==
  /\ cache' # cache =>
       \E s \in Slots :
         /\ call[s].pc = "cache_set" /\ call'[s] = IdleCall
         /\ "net" \in call[s].did
         /\ call[s].result.success /\ call[s].request.cache_enabled
         /\ returned'.kind = "fresh"
         /\ DOMAIN cache' = DOMAIN cache \cup {generate_cache_key(call[s].request)}
  /\ \A c \in {returned'} \cup {call'[s] : s \in Slots} :
       ~ c.request.cache_enabled => c.did \cap {"cache_get", "cache_set"} = {}
  /\ \A k \in DOMAIN cache' : FromJson(cache'[k].data).success

HeaderSet(headers) == IF headers = None THEN {} ELSE Range(headers)

\* C21: the key is a function of (method, url, header set): requests that agree
\* in method, url and header set get the same key, and requests that differ in
\* method, url or header set get different keys.
C21_Claim ==
  reply.endpoint = "_generate_cache_key" =>
    \A method \in KeyTexts, url \in KeyTexts, headers \in HeaderDicts :
      (method = reply.method /\ url = reply.url
         /\ HeaderSet(headers) = HeaderSet(reply.headers))
      <=> CacheKeyContent(method, url, headers) = reply.key

\* the half of C21 that holds: the key does not depend on the order of the headers
C21_Deterministic ==
  reply.endpoint = "_generate_cache_key" =>
    \A headers \in HeaderDicts :
      HeaderSet(headers) = HeaderSet(reply.headers)
        => CacheKeyContent(reply.method, reply.url, headers) = reply.key

\* C22: the answer of GET /config does not depend on the value of
\* security.api_key: for every other value of the key the endpoint gives the
\* same body, and the body does not hold the configured value.
C22_Claim ==
  (reply.endpoint = "config" /\ reply.of.api_key # Absent) =>
    /\ reply.body.security.api_key # reply.of.api_key \/ reply.of.api_key = Redacted
    /\ \A k \in AdminKeys :
         ConfigBody(reply.body.config, [reply.of EXCEPT !.api_key = k]) = reply.body

C22_Witness == reply.endpoint = "config" /\ reply.of.api_key \in {"s1", "s2"}

\* C24: for a limit N >= 0 the answer of GET /blocked/requests holds at most N
\* entries, the N last of the log in log order, and the length of the log.
C24_Claim ==
  (reply.endpoint = "blocked" /\ reply.limit >= 0) =>
    LET n == IF reply.limit < Len(reply.of) THEN reply.limit ELSE Len(reply.of)
    IN /\ Len(reply.blocked_requests) <= reply.limit
       /\ reply.blocked_requests = SubSeq(reply.of, Len(reply.of) - n + 1, Len(reply.of))
       /\ reply.total = Len(reply.of)

\* _is_domain_allowed over the given lists
AllowedByLists(BL, AL, url) ==
  LET domain == Lower(Netloc(url)) IN
    /\ ~ \E blocked \in BL : IsSubstr(blocked, domain)
    /\ AL # {} => \E allowed \in AL : IsSubstr(allowed, domain)

\* a call of fetch_url begins in this step; its frame after the step
Begins == started' = started + 1

Begun ==
  IF returned'.pc = "done" THEN returned'
  ELSE call'[CHOOSE s \in Slots : call'[s] # call[s]]

\* C26: every fetch is decided on the domain lists of the live configuration,
\* which after a reload are those of the reloaded file.
C26_Step ==
  Begins =>
    (Begun.kind = "blocked"
       <=> ~ AllowedByLists(security.blocked_domains, security.allowed_domains,
                            Begun.request.url))

C26_Claim == [][C26_Step]_vars

\* C27: a step that answers GET /config leaves the live configuration as it was.
C27_Step == reply'.endpoint = "config" => (config' = config /\ security' = security)

C27_Claim == [][C27_Step]_vars

\* C25: a bulk_fetch call that waits in gather eventually returns, for every
\* batch and every concurrent_limit that BulkFetchRequest accepts.
C25_Claim == (bulk.pc = "gather") ~> BulkDone

\* the state in which a call with concurrent_limit = 0 waits: no task holds the
\* semaphore, none can take it
C25_Blocked ==
  /\ bulk.pc = "gather" /\ bulk.sem = 0 /\ InFlight = {}
  /\ \E i \in 1..Len(bulk.tasks) : bulk.tasks[i].st = "waiting"

\* C23: while one POST /fetch/bulk with N URLs is handled, at most N calls of
\* fetch_url are made and at most N calls of the client are counted.
C23_Claim ==
  dispatch.pc # "idle" =>
    /\ started <= Len(bulk.urls)
    /\ calls[SeededClient] <= Len(bulk.urls)

\* C28: with rate limiting enabled, the call that follows cap accepted calls of
\* the same client in the same minute window returns 429, with or without a
\* Redis client (stated for the configured cap of 60, which is also the cap the
\* limiter compares with, and for a call whose limiter round trips answered).
C28_Claim ==
  ( /\ Done
    /\ config.rate_limiting_enabled
    /\ config.requests_per_minute = MINUTE_CAP
    /\ returned.rl # "error"
    /\ returned.ord = MINUTE_CAP + 1
    /\ returned.prior = MINUTE_CAP ) =>
    /\ returned.result.status_code = 429
    /\ returned.result.success = FALSE

\* C29: a call that is answered from the cache has the method, the url, the
\* headers and the body of the request whose response the entry holds.
C29_Claim ==
  (Done /\ returned.kind = "cachehit") =>
    LET by == filled[generate_cache_key(returned.request)]
    IN /\ by.method = returned.request.method
       /\ by.url = returned.request.url
       /\ by.headers = returned.request.headers
       /\ by.data = returned.request.data

\* C30: an enabled plugin whose POST /fetch was answered with 403 or 429 sends
\* no direct request for that url.
C30_Claim ==
  (plugin.pc = "done" /\ plugin.enabled /\ plugin.status \in {403, 429}) => ~ plugin.direct

====
